---- MODULE Spec2Model ----
(***************************************************************************)
(* SplitMix64 (src/src/splitmix64.rs): the generator SMGen {seed, gamma},  *)
(* its RngCore and SeedableRng implementations, split, the SMGenClone      *)
(* wrapper whose clone is a split, and the mixing functions.               *)
(*                                                                         *)
(* A u64 is a sequence of four 16-bit limbs, limb 1 the least significant, *)
(* so every operation below is the exact 64-bit wrapping operation of the  *)
(* source and no intermediate value leaves TLC's integer range.            *)
(*                                                                         *)
(* from_seed (seed_from_u64 of the little-endian reading of 8 bytes) and   *)
(* try_fill_bytes (fill_bytes, then Ok) add no behaviour of their own and  *)
(* are left out.  fill_bytes is rand_core's fill_bytes_via_next, modelled  *)
(* as that routine is written.                                             *)
(***************************************************************************)
EXTENDS Integers, Sequences, FiniteSets

(***************************************************************************)
(* u64 arithmetic                                                          *)
(***************************************************************************)

\* The u64 written as four hexadecimal groups, most significant first, as
\* a literal reads in the source.
W(h3, h2, h1, h0) == <<h0, h1, h2, h3>>

Zero64 == W(0, 0, 0, 0)

\* A small natural number as a u64 (n < 2^31).
FromNat(n) == <<n % 65536, (n \div 65536) % 65536, 0, 0>>

\* Limb i of w, counting from 1; limbs above the top are zero.
Limb(w, i) == IF i <= 4 THEN w[i] ELSE 0

\* u64::wrapping_add
Add64(a, b) ==
    LET s1 == a[1] + b[1]
        s2 == a[2] + b[2] + (s1 \div 65536)
        s3 == a[3] + b[3] + (s2 \div 65536)
        s4 == a[4] + b[4] + (s3 \div 65536)
    IN  <<s1 % 65536, s2 % 65536, s3 % 65536, s4 % 65536>>

\* Bitwise exclusive or of two naturals.
RECURSIVE XorBits(_, _)
XorBits(a, b) ==
    IF a = 0 THEN b
    ELSE IF b = 0 THEN a
    ELSE ((a + b) % 2) + 2 * XorBits(a \div 2, b \div 2)

\* The ^ operator on u64.
Xor64(a, b) ==
    <<XorBits(a[1], b[1]), XorBits(a[2], b[2]), XorBits(a[3], b[3]), XorBits(a[4], b[4])>>

\* The | 1 of mix_gamma: bit 0 forced to 1.
Or1(w) == [w EXCEPT ![1] = IF w[1] % 2 = 0 THEN w[1] + 1 ELSE w[1]]

\* u64::wrapping_shr: a logical right shift by n mod 64 bits.
Shr64(w, n) ==
    LET m == n % 64
        q == m \div 16
        r == m % 16
        p == 2 ^ r
        f(i) == (Limb(w, i + q) \div p) + (Limb(w, i + q + 1) % p) * (65536 \div p)
    IN  <<f(1), f(2), f(3), f(4)>>

\* u64::to_le_bytes: the eight bytes, least significant first.
ToLeBytes(w) ==
    <<w[1] % 256, w[1] \div 256, w[2] % 256, w[2] \div 256,
      w[3] % 256, w[3] \div 256, w[4] % 256, w[4] \div 256>>

\* u64::from_le_bytes
FromLeBytes(b) ==
    <<b[1] + 256 * b[2], b[3] + 256 * b[4], b[5] + 256 * b[6], b[7] + 256 * b[8]>>

\* The low eight columns of the schoolbook product of two byte strings.
MulColumns(x, y) ==
    <<x[1] * y[1],
      x[1] * y[2] + x[2] * y[1],
      x[1] * y[3] + x[2] * y[2] + x[3] * y[1],
      x[1] * y[4] + x[2] * y[3] + x[3] * y[2] + x[4] * y[1],
      x[1] * y[5] + x[2] * y[4] + x[3] * y[3] + x[4] * y[2] + x[5] * y[1],
      x[1] * y[6] + x[2] * y[5] + x[3] * y[4] + x[4] * y[3] + x[5] * y[2]
          + x[6] * y[1],
      x[1] * y[7] + x[2] * y[6] + x[3] * y[5] + x[4] * y[4] + x[5] * y[3]
          + x[6] * y[2] + x[7] * y[1],
      x[1] * y[8] + x[2] * y[7] + x[3] * y[6] + x[4] * y[5] + x[5] * y[4]
          + x[6] * y[3] + x[7] * y[2] + x[8] * y[1]>>

\* The columns from k on reduced to bytes, carries propagated upwards.
RECURSIVE MulBytes(_, _, _)
MulBytes(cols, k, carry) ==
    IF k > 8 THEN <<>>
    ELSE LET t == cols[k] + carry
         IN  <<t % 256>> \o MulBytes(cols, k + 1, t \div 256)

\* u64::wrapping_mul
Mul64(a, b) == FromLeBytes(MulBytes(MulColumns(ToLeBytes(a), ToLeBytes(b)), 1, 0))

\* Number of set bits of a natural.
RECURSIVE PopBits(_)
PopBits(a) == IF a = 0 THEN 0 ELSE (a % 2) + PopBits(a \div 2)

\* u64::count_ones
CountOnes(w) == PopBits(w[1]) + PopBits(w[2]) + PopBits(w[3]) + PopBits(w[4])

\* Bit 0 of a u64.
IsOdd(w) == w[1] % 2 = 1

(***************************************************************************)
(* Mixing functions                                                        *)
(***************************************************************************)

GOLDEN_GAMMA == W(\H9e37, \H79b9, \H7f4a, \H7c15)

\* fn shift_xor(n, w) = w ^ (w.wrapping_shr(n))
shift_xor(n, w) == Xor64(w, Shr64(w, n))

\* fn shift_xor_mult(n, k, w) = shift_xor(n, w).wrapping_mul(k)
shift_xor_mult(n, k, w) == Mul64(shift_xor(n, w), k)

mix64(z) ==
    LET z1 == shift_xor_mult(33, W(\Hff51, \Hafd7, \Hed55, \H8ccd), z)
        z2 == shift_xor_mult(33, W(\Hc4ce, \Hb9fe, \H1a85, \Hec53), z1)
    IN  shift_xor(31, z2)

mix64_variant_13(z) ==
    LET z1 == shift_xor_mult(30, W(\Hbf58, \H476d, \H1ce4, \He5b9), z)
        z2 == shift_xor_mult(27, W(\H94d0, \H49bb, \H1331, \H11eb), z1)
    IN  shift_xor(31, z2)

\* Mutant: the candidate without the | 1.
GammaCandidate_NoOr(z) == mix64_variant_13(z)

\* The candidate of mix_gamma and its dispersion count.
GammaCandidate(z) == Or1(mix64_variant_13(z))

Dispersion(w) == CountOnes(shift_xor(1, w))

\* Mutant: a candidate that fails the gate is returned uncorrected.
mix_gamma_NoFix(z) == GammaCandidate(z)

\* Mutant: the correction uses the complementary mask, which flips bit 0.
mix_gamma_WrongMask(z) ==
    LET c == GammaCandidate(z)
        n == Dispersion(c)
    IN  IF n >= 24 THEN c
        ELSE Xor64(c, W(\H5555, \H5555, \H5555, \H5555))

mix_gamma(z) ==
    LET c == GammaCandidate(z)
        n == Dispersion(c)
    IN  IF n >= 24 THEN c
        ELSE Xor64(c, W(\Haaaa, \Haaaa, \Haaaa, \Haaaa))

(***************************************************************************)
(* The generator: struct SMGen { seed: u64, gamma: u64 }.  Every method    *)
(* returns the generator after the call (self), the value returned (ret)   *)
(* and, in order, the values the call assigned to self.seed (seeds).       *)
(***************************************************************************)

SMGen(s, g) == [seed |-> s, gamma |-> g]

\* (x >> 32) as u32: the two limbs of the high half, low limb first.
HighU32(x) == LET y == Shr64(x, 32) IN <<y[1], y[2]>>

\* u32::to_le_bytes
ToLeBytes32(x) == <<x[1] % 256, x[1] \div 256, x[2] % 256, x[2] \div 256>>

\* Mutant: the output is mixed, as in the reference nextLong.
next_u64_Mixed(self) ==
    LET s == Add64(self.seed, self.gamma)
    IN  [self |-> [self EXCEPT !.seed = s], ret |-> mix64(s), seeds |-> <<s>>]

\* RngCore::next_u64 for SMGen
next_u64(self) ==
    LET s == Add64(self.seed, self.gamma)
    IN  [self |-> [self EXCEPT !.seed = s], ret |-> s, seeds |-> <<s>>]

\* RngCore::next_u32 for SMGen
next_u32(self) ==
    LET r == next_u64(self)
    IN  [self |-> r.self, ret |-> HighU32(r.ret), seeds |-> r.seeds]

\* Mutant: the second advance is missing.
split_OneAdvance(self) ==
    LET s1 == Add64(self.seed, self.gamma)
    IN  [self |-> [self EXCEPT !.seed = s1],
         ret |-> SMGen(mix64(s1), mix_gamma(s1)),
         seeds |-> <<s1>>]

\* Mutant: both advances are made before either field is computed.
split_AdvanceFirst(self) ==
    LET s1 == Add64(self.seed, self.gamma)
        s2 == Add64(s1, self.gamma)
    IN  [self |-> [self EXCEPT !.seed = s2],
         ret |-> SMGen(mix64(s2), mix_gamma(s2)),
         seeds |-> <<s1, s2>>]

\* SMGen::split: the fields of the struct literal are evaluated in the order
\* written, seed before gamma.
split(self) ==
    LET s1 == Add64(self.seed, self.gamma)
        childSeed == mix64(s1)
        s2 == Add64(s1, self.gamma)
        childGamma == mix_gamma(s2)
    IN  [self |-> [self EXCEPT !.seed = s2],
         ret |-> SMGen(childSeed, childGamma),
         seeds |-> <<s1, s2>>]

\* rand_core::impls::fill_bytes_via_next on a destination of `left` bytes:
\*   while left.len() >= 8 { chunk = rng.next_u64().to_le_bytes(); copy 8 }
\*   n = left.len();
\*   if n > 4      { chunk = rng.next_u64().to_le_bytes(); copy chunk[..n] }
\*   else if n > 0 { chunk = rng.next_u32().to_le_bytes(); copy chunk[..n] }
\* ret is the destination as written.
RECURSIVE fill_bytes_via_next(_, _)
fill_bytes_via_next(self, left) ==
    IF left >= 8 THEN
        LET r == next_u64(self)
            rest == fill_bytes_via_next(r.self, left - 8)
        IN  [self |-> rest.self,
             ret |-> ToLeBytes(r.ret) \o rest.ret,
             seeds |-> r.seeds \o rest.seeds]
    ELSE IF left > 4 THEN
        LET r == next_u64(self)
        IN  [self |-> r.self,
             ret |-> SubSeq(ToLeBytes(r.ret), 1, left),
             seeds |-> r.seeds]
    ELSE IF left > 0 THEN
        LET r == next_u32(self)
        IN  [self |-> r.self,
             ret |-> SubSeq(ToLeBytes32(r.ret), 1, left),
             seeds |-> r.seeds]
    ELSE [self |-> self, ret |-> <<>>, seeds |-> <<>>]

\* Mutant: every word is written most significant byte first.
RECURSIVE fill_bytes_BigEndian(_, _)
fill_bytes_BigEndian(self, left) ==
    IF left = 0 THEN [self |-> self, ret |-> <<>>, seeds |-> <<>>]
    ELSE LET r == next_u64(self)
             n == IF left >= 8 THEN 8 ELSE left
             le == ToLeBytes(r.ret)
             rest == fill_bytes_BigEndian(r.self, left - n)
         IN  [self |-> rest.self,
              ret |-> [j \in 1..n |-> le[9 - j]] \o rest.ret,
              seeds |-> r.seeds \o rest.seeds]

\* Mutant: a tail of any length is cut from a whole next_u64 output.
RECURSIVE fill_bytes_TailNextU64(_, _)
fill_bytes_TailNextU64(self, left) ==
    IF left = 0 THEN [self |-> self, ret |-> <<>>, seeds |-> <<>>]
    ELSE LET r == next_u64(self)
             n == IF left >= 8 THEN 8 ELSE left
             rest == fill_bytes_TailNextU64(r.self, left - n)
         IN  [self |-> rest.self,
              ret |-> SubSeq(ToLeBytes(r.ret), 1, n) \o rest.ret,
              seeds |-> r.seeds \o rest.seeds]

\* RngCore::fill_bytes for SMGen
fill_bytes(self, len) == fill_bytes_via_next(self, len)

\* SeedableRng::seed_from_u64 for SMGen
seed_from_u64(seed) == SMGen(mix64(seed), mix_gamma(Add64(seed, GOLDEN_GAMMA)))

(***************************************************************************)
(* The wrapper: struct SMGenClone { inner: UnsafeCell<SMGen> }.            *)
(***************************************************************************)

SMGenClone(g) == [inner |-> g]

\* Mutant: a derived Clone, which copies the cell and mutates nothing.
clone_Copy(self) == [self |-> self, ret |-> self, seeds |-> <<>>]

\* Clone::clone for SMGenClone: splits the generator inside the cell.
clone(self) ==
    LET r == split(self.inner)
    IN  [self |-> SMGenClone(r.self), ret |-> SMGenClone(r.ret), seeds |-> r.seeds]

\* RngCore for SMGenClone: every method is the inner generator's.
clone_next_u32(self) ==
    LET r == next_u32(self.inner)
    IN  [self |-> SMGenClone(r.self), ret |-> r.ret, seeds |-> r.seeds]

clone_next_u64(self) ==
    LET r == next_u64(self.inner)
    IN  [self |-> SMGenClone(r.self), ret |-> r.ret, seeds |-> r.seeds]

clone_fill_bytes(self, len) ==
    LET r == fill_bytes(self.inner, len)
    IN  [self |-> SMGenClone(r.self), ret |-> r.ret, seeds |-> r.seeds]

\* SeedableRng::seed_from_u64 for SMGenClone
clone_seed_from_u64(seed) == SMGenClone(seed_from_u64(seed))

(***************************************************************************)
(* Bounds and inputs                                                       *)
(***************************************************************************)

\* Calls made on the generators of one run.
MaxOps == 3

\* fill_bytes calls among them.
MaxFills == 1

\* fill_bytes destinations hold up to MaxWords whole words and a remainder.
MaxWords == 2

\* The 64-bit seeds a run may start from: 0; 42; and 2329, whose gamma
\* candidate is even and fails the dispersion gate, as does the candidate of
\* its first child.
Seeds == {FromNat(0), FromNat(42), FromNat(2329)}

Lengths == 0..(8 * MaxWords + 7)

(***************************************************************************)
(* State                                                                   *)
(***************************************************************************)

VARIABLES
    gens,   \* the generators alive, in order of creation: all SMGen, or all SMGenClone
    hist,   \* hist[i]: the values gens[i]'s seed has held, oldest first
    run,    \* run[i]: the next_u64 calls made on gens[i] since any other call on it
    last,   \* the last call: its name, receiver, receiver before it, and result
    nops,   \* calls made so far
    nfills, \* fill_bytes calls made so far
    input   \* the u64 the first generator was seeded from

vars == <<gens, hist, run, last, nops, nfills, input>>

IsClone(x) == "inner" \in DOMAIN x

\* The SMGen behind a handle.
Inner(x) == IF IsClone(x) THEN x.inner ELSE x

Handles == 1..Len(gens)

Init ==
    \E s \in Seeds, wrapped \in BOOLEAN :
        LET g == IF wrapped THEN clone_seed_from_u64(s) ELSE seed_from_u64(s)
        IN  /\ gens = <<g>>
            /\ hist = <<<<Inner(g).seed>>>>
            /\ run = <<0>>
            /\ last = [op |-> "seed_from_u64", g |-> 1, pre |-> g, arg |-> s, ret |-> g]
            /\ nops = 0
            /\ nfills = 0
            /\ input = s

\* A call on gens[i] that returns a value and creates no generator.
Draw(i, name, arg, r) ==
    /\ gens' = [gens EXCEPT ![i] = r.self]
    /\ hist' = [hist EXCEPT ![i] = @ \o r.seeds]
    /\ run' = [run EXCEPT ![i] = IF name = "next_u64" THEN @ + 1 ELSE 0]
    /\ last' = [op |-> name, g |-> i, pre |-> gens[i], arg |-> arg, ret |-> r.ret]
    /\ nops' = nops + 1
    /\ nfills' = IF name = "fill_bytes" THEN nfills + 1 ELSE nfills
    /\ UNCHANGED input

\* A call on gens[i] that returns a new generator.
Derive(i, name, r) ==
    /\ gens' = Append([gens EXCEPT ![i] = r.self], r.ret)
    /\ hist' = Append([hist EXCEPT ![i] = @ \o r.seeds], <<Inner(r.ret).seed>>)
    /\ run' = Append([run EXCEPT ![i] = 0], 0)
    /\ last' = [op |-> name, g |-> i, pre |-> gens[i], arg |-> <<>>, ret |-> r.ret]
    /\ nops' = nops + 1
    /\ UNCHANGED <<nfills, input>>

NextU64(i) ==
    /\ nops < MaxOps /\ ~IsClone(gens[i])
    /\ Draw(i, "next_u64", <<>>, next_u64(gens[i]))

NextU32(i) ==
    /\ nops < MaxOps /\ ~IsClone(gens[i])
    /\ Draw(i, "next_u32", <<>>, next_u32(gens[i]))

FillBytes(i, len) ==
    /\ nops < MaxOps /\ nfills < MaxFills /\ ~IsClone(gens[i])
    /\ Draw(i, "fill_bytes", len, fill_bytes(gens[i], len))

Split(i) ==
    /\ nops < MaxOps /\ ~IsClone(gens[i])
    /\ Derive(i, "split", split(gens[i]))

CloneNextU64(i) ==
    /\ nops < MaxOps /\ IsClone(gens[i])
    /\ Draw(i, "next_u64", <<>>, clone_next_u64(gens[i]))

CloneNextU32(i) ==
    /\ nops < MaxOps /\ IsClone(gens[i])
    /\ Draw(i, "next_u32", <<>>, clone_next_u32(gens[i]))

CloneFillBytes(i, len) ==
    /\ nops < MaxOps /\ nfills < MaxFills /\ IsClone(gens[i])
    /\ Draw(i, "fill_bytes", len, clone_fill_bytes(gens[i], len))

Clone(i) ==
    /\ nops < MaxOps /\ IsClone(gens[i])
    /\ Derive(i, "clone", clone(gens[i]))

Next ==
    \/ \E i \in Handles : NextU64(i)
    \/ \E i \in Handles : NextU32(i)
    \/ \E i \in Handles, len \in Lengths : FillBytes(i, len)
    \/ \E i \in Handles : Split(i)
    \/ \E i \in Handles : CloneNextU64(i)
    \/ \E i \in Handles : CloneNextU32(i)
    \/ \E i \in Handles, len \in Lengths : CloneFillBytes(i, len)
    \/ \E i \in Handles : Clone(i)

Spec == Init /\ [][Next]_vars

(***************************************************************************)
(* Vocabulary of the properties                                            *)
(***************************************************************************)

\* The receiver of the last call, before and after it.
Pre == Inner(last.pre)
Post == Inner(gens[last.g])

\* n * gamma added to seed, all mod 2^64.
Advanced(seed, gamma, n) == Add64(seed, Mul64(FromNat(n), gamma))

\* Byte j (0 the least significant) of a u64: (w >> 8j) & 0xff.
Byte(w, j) == Shr64(w, 8 * j)[1] % 256

\* 2^k as a u64, k in 0..63.
Pow2(k) == [i \in 1..4 |-> IF i = (k \div 16) + 1 THEN 2 ^ (k % 16) ELSE 0]

\* The generator after n calls of next_u64, and the value the n-th returns.
RECURSIVE AfterNextU64(_, _)
AfterNextU64(g, n) == IF n = 0 THEN g ELSE next_u64(AfterNextU64(g, n - 1)).self

NthNextU64(g, n) == next_u64(AfterNextU64(g, n - 1)).ret

\* Byte p (from 1) of the little-endian stream of g's next_u64 outputs.
StreamByte(g, p) == Byte(NthNextU64(g, ((p - 1) \div 8) + 1), (p - 1) % 8)

\* The last call split its receiver.
LastSplit == last.op \in {"split", "clone"}

(***************************************************************************)
(* C1.  Every generator has an odd gamma: the seeded generator, every      *)
(* child of a split at any depth, and no call changes the gamma of a       *)
(* generator that exists.                                                  *)
(***************************************************************************)
C1_GammaOdd ==
    /\ [](\A i \in Handles : IsOdd(Inner(gens[i]).gamma))
    /\ [][\A i \in Handles : Inner(gens'[i]).gamma = Inner(gens[i]).gamma]_vars

\* A grandchild has been split from a child, and its gamma came from an
\* even output of mix64_variant_13.
C1_Witness ==
    /\ LastSplit /\ last.g = 2 /\ Len(gens) = 3
    /\ ~IsOdd(mix64_variant_13(Post.seed))
    /\ IsOdd(Inner(gens[3]).gamma)

(***************************************************************************)
(* C2.  Every generator's gamma g has popcount(g XOR (g >> 1)) >= 24,      *)
(* also when the candidate failed the gate and was corrected by the XOR    *)
(* with 0xaaaaaaaaaaaaaaaa.                                                *)
(***************************************************************************)
C2_GammaDispersion ==
    \A i \in Handles : Dispersion(Inner(gens[i]).gamma) >= 24

\* A seeded generator and its child by split, the candidates of both having
\* failed the gate and been corrected.
C2_Witness ==
    /\ LastSplit /\ last.g = 1
    /\ Dispersion(GammaCandidate(Add64(input, GOLDEN_GAMMA))) < 24
    /\ Inner(gens[1]).gamma # GammaCandidate(Add64(input, GOLDEN_GAMMA))
    /\ Dispersion(GammaCandidate(Post.seed)) < 24
    /\ Inner(last.ret).gamma # GammaCandidate(Post.seed)

(***************************************************************************)
(* C3.  The k-th consecutive next_u64 from state (seed0, gamma) returns    *)
(* seed0 + k*gamma mod 2^64, unmixed, and leaves (seed0 + k*gamma, gamma); *)
(* for a freshly seeded generator seed0 = mix64(s) and                     *)
(* gamma = mix_gamma(s + GOLDEN_GAMMA).                                    *)
(***************************************************************************)
C3_NextU64 ==
    last.op = "next_u64" =>
        LET i == last.g
            k == run[i]
            n == Len(hist[i])
            seed0 == hist[i][n - k]
            gamma == Pre.gamma
            expect == Advanced(seed0, gamma, k)
        IN  /\ k >= 1
            /\ last.ret = expect
            /\ Post = SMGen(expect, gamma)
            /\ (i = 1 /\ n - k = 1) =>
                   last.ret = Advanced(mix64(input),
                                       mix_gamma(Add64(input, GOLDEN_GAMMA)), k)

\* Three consecutive draws from the generator seeded with 42.
C3_Witness ==
    /\ last.op = "next_u64" /\ last.g = 1
    /\ run[1] = 3 /\ Len(hist[1]) = 4
    /\ input = FromNat(42)

(***************************************************************************)
(* C4.  split() leaves the parent at (seed0 + 2*gamma mod 2^64, gamma).    *)
(***************************************************************************)
C4_SplitParent ==
    last.op = "split" =>
        Post = SMGen(Advanced(Pre.seed, Pre.gamma, 2), Pre.gamma)

\* A split of a generator that has already drawn.
C4_Witness ==
    /\ last.op = "split"
    /\ Len(hist[last.g]) >= 4
    /\ Post.seed # Pre.seed

(***************************************************************************)
(* C6.  fill_bytes on 8*k bytes writes the little-endian encodings of the  *)
(* k values k calls of next_u64 would return, and leaves the generator     *)
(* where those k calls would.                                              *)
(***************************************************************************)
C6_FillWhole ==
    (last.op = "fill_bytes" /\ last.arg % 8 = 0) =>
        LET k == last.arg \div 8
        IN  /\ Len(last.ret) = last.arg
            /\ \A p \in 1..last.arg : last.ret[p] = StreamByte(Pre, p)
            /\ Post = AfterNextU64(Pre, k)

\* Two whole words filled.
C6_Witness ==
    /\ last.op = "fill_bytes" /\ last.arg = 16
    /\ Len(last.ret) = 16
    /\ Post.seed = Advanced(Pre.seed, Pre.gamma, 2)

(***************************************************************************)
(* C7.  As claimed: fill_bytes on 8*k + r bytes, 0 < r < 8, writes the     *)
(* first 8*k + r bytes of the little-endian stream of next_u64 outputs.    *)
(***************************************************************************)
C7_Original ==
    (last.op = "fill_bytes" /\ last.arg % 8 # 0) =>
        /\ Len(last.ret) = last.arg
        /\ \A p \in 1..last.arg : last.ret[p] = StreamByte(Pre, p)

(***************************************************************************)
(* C7, amended.  The 8*k whole words are as claimed and the generator      *)
(* advances k + 1 times.  For r in 5..7 the tail is the first r bytes of   *)
(* the (k+1)-th next_u64 output; for r in 1..4 it is the first r bytes of  *)
(* next_u32(), the high half of that output: bytes 4..4+r-1 of its         *)
(* little-endian encoding.                                                 *)
(***************************************************************************)
C7_FillTail ==
    (last.op = "fill_bytes" /\ last.arg % 8 # 0) =>
        LET k == last.arg \div 8
            r == last.arg % 8
            word == NthNextU64(Pre, k + 1)
        IN  /\ Len(last.ret) = last.arg
            /\ \A p \in 1..(8 * k) : last.ret[p] = StreamByte(Pre, p)
            /\ \A j \in 1..r :
                   last.ret[8 * k + j] =
                       Byte(word, IF r <= 4 THEN 4 + j - 1 ELSE j - 1)
            /\ Post = AfterNextU64(Pre, k + 1)

\* A tail of 1..4 bytes after a whole word, where the high half of the
\* word differs from its low half.
C7_Witness ==
    /\ last.op = "fill_bytes" /\ last.arg \in 9..12
    /\ last.ret[9] = Byte(NthNextU64(Pre, 2), 4)
    /\ last.ret[9] # Byte(NthNextU64(Pre, 2), 0)

(***************************************************************************)
(* C8.  SMGenClone::clone is a split: from inner state (s, g) it returns a *)
(* wrapper of (mix64(s + g), mix_gamma(s + 2g)) and leaves the original at *)
(* (s + 2g, g); the wrapper's next_u64 and next_u32 are the inner          *)
(* generator's.                                                            *)
(***************************************************************************)
C8_CloneIsSplit ==
    /\ last.op = "clone" =>
        LET s1 == Add64(Pre.seed, Pre.gamma)
            s2 == Add64(s1, Pre.gamma)
        IN  /\ last.ret = SMGenClone(SMGen(mix64(s1), mix_gamma(s2)))
            /\ gens[last.g] = SMGenClone(SMGen(s2, Pre.gamma))
            /\ gens[Len(gens)] = last.ret
    /\ (IsClone(last.pre) /\ last.op \in {"next_u64", "next_u32"}) =>
        LET s1 == Add64(Pre.seed, Pre.gamma)
        IN  /\ gens[last.g] = SMGenClone(SMGen(s1, Pre.gamma))
            /\ last.op = "next_u64" => last.ret = s1
            /\ last.op = "next_u32" => last.ret = <<s1[3], s1[4]>>

\* A wrapper cloned after an earlier call on it.
C8_Witness ==
    /\ last.op = "clone" /\ nops >= 2
    /\ IsClone(gens[last.g]) /\ IsClone(last.ret)
    /\ gens[last.g] # last.pre
    /\ last.ret # last.pre

(***************************************************************************)
(* C9.  split() returns the child (mix64(seed0 + gamma),                   *)
(* mix_gamma(seed0 + 2*gamma)): the seed from the accumulator after the    *)
(* first advance, never from the twice-advanced one, the gamma from the    *)
(* accumulator after the second advance.                                   *)
(***************************************************************************)
C9_SplitChild ==
    last.op = "split" =>
        LET once == Advanced(Pre.seed, Pre.gamma, 1)
            twice == Advanced(Pre.seed, Pre.gamma, 2)
        IN  /\ last.ret.seed = mix64(once)
            /\ last.ret.seed # mix64(twice)
            /\ last.ret.gamma = mix_gamma(twice)
            /\ gens[Len(gens)] = last.ret

\* A split whose two candidate gammas differ, so the order is observable.
C9_Witness ==
    /\ last.op = "split"
    /\ last.ret.gamma # mix_gamma(Advanced(Pre.seed, Pre.gamma, 1))
    /\ last.ret.gamma = mix_gamma(Post.seed)

(***************************************************************************)
(* C10.  The accumulator never revisits a value: after i increments it is  *)
(* seed0 + i*gamma mod 2^64 (every value of the last call's receiver, the  *)
(* current one of the others), the values recorded are pairwise distinct   *)
(* (the intermediate seeds of two splits of one parent among them), and    *)
(* half a period does not bring it back: 2^63 * gamma # 0 mod 2^64, nor    *)
(* does any stride 2^k, k in 0..63, for a generator just created.  The     *)
(* period divides 2^64, so it is 2^64.                                     *)
(***************************************************************************)
C10_NoRevisit ==
    /\ \A i \in Handles :
        LET h == hist[i]
            gamma == Inner(gens[i]).gamma
        IN  /\ h[Len(h)] = Inner(gens[i]).seed
            /\ \A n \in 1..Len(h) :
                   (i = last.g \/ n = Len(h)) => h[n] = Advanced(h[1], gamma, n - 1)
            /\ \A m, n \in 1..Len(h) : m # n => h[m] # h[n]
            /\ Mul64(Pow2(63), gamma) # Zero64
    /\ last.op \in {"seed_from_u64", "split", "clone"} =>
        \A k \in 0..63 : Mul64(Pow2(k), Inner(last.ret).gamma) # Zero64

\* One parent split twice: four increments, two children.
C10_Witness ==
    /\ last.op = "split" /\ last.g = 1
    /\ Len(gens) = 3 /\ Len(hist[1]) = 5
    /\ hist[1][2] # hist[1][4]
====
